---- MODULE Spec2Model ----
(***************************************************************************)
(* Model of rpm-container-registry/app.py: a registry-v2 HTTP front end    *)
(* whose handlers resolve names, tags and digests through rpm queries and  *)
(* the installed OCI layouts.                                              *)
(*                                                                         *)
(* Strings are sequences of tokens.  The tokens " ", "=", ":", "\n" are    *)
(* single characters; hex digits are single characters; every other token  *)
(* ("sha256", "oci_image(", "foo", ...) is a run of characters that holds  *)
(* none of the separators, so split/strip/startswith/endswith/replace act  *)
(* on token sequences exactly as they act on the Python strings.           *)
(***************************************************************************)
EXTENDS Integers, Sequences, FiniteSets, TLC

(***************************************************************************)
(* Bounds of the model.                                                    *)
(***************************************************************************)
MaxProvides == 2
MaxManifests == 2
MaxFiles == 2

BSeq(S, n) == UNION {[1..k -> S] : k \in 0..n}

(***************************************************************************)
(* Python string operations used by app.py.                                *)
(***************************************************************************)
RECURSIVE SplitAcc(_, _, _)
SplitAcc(s, sep, cur) ==
    IF s = <<>> THEN <<cur>>
    ELSE IF Head(s) = sep THEN <<cur>> \o SplitAcc(Tail(s), sep, <<>>)
    ELSE SplitAcc(Tail(s), sep, Append(cur, Head(s)))

\* str.split(sep) for a one-character separator
split(s, sep) == SplitAcc(s, sep, <<>>)

\* str.splitlines(): like split("\n"), without the empty piece after a final newline
splitlines(s) ==
    LET parts == split(s, "\n")
    IN  IF parts[Len(parts)] = <<>> THEN SubSeq(parts, 1, Len(parts) - 1) ELSE parts

RECURSIVE LStrip(_)
LStrip(s) == IF s # <<>> /\ Head(s) = " " THEN LStrip(Tail(s)) ELSE s

RECURSIVE RStrip(_)
RStrip(s) == IF s # <<>> /\ s[Len(s)] = " " THEN RStrip(SubSeq(s, 1, Len(s) - 1)) ELSE s

\* str.strip()
strip(s) == RStrip(LStrip(s))

startswith(s, pre) == Len(s) >= Len(pre) /\ SubSeq(s, 1, Len(pre)) = pre

endswith(s, suf) == Len(s) >= Len(suf) /\ SubSeq(s, Len(s) - Len(suf) + 1, Len(s)) = suf

RECURSIVE replace(_, _, _)
\* str.replace(old, new), old non-empty
replace(s, old, new) ==
    IF s = <<>> THEN <<>>
    ELSE IF startswith(s, old) THEN new \o replace(SubSeq(s, Len(old) + 1, Len(s)), old, new)
    ELSE <<Head(s)>> \o replace(Tail(s), old, new)

Contains(s, ch) == \E i \in 1..Len(s) : s[i] = ch

RECURSIVE Concat(_)
Concat(ss) == IF ss = <<>> THEN <<>> ELSE Head(ss) \o Concat(Tail(ss))

Range(s) == {s[i] : i \in 1..Len(s)}

\* the orders in which a Python set of lines can be iterated
Orders(S) == {o \in [1..Cardinality(S) -> S] : \A i, j \in 1..Cardinality(S) : o[i] = o[j] => i = j}

SHA_PREFIX == <<"sha256", ":">>

_OCI_BASE_PATH == <<"/usr/share/suse-docker-images/oci/">>
_BLOBS_BASE_PATH == _OCI_BASE_PATH \o <<"/blobs/sha256/">>

MANIFEST_LIST_V2_MEDIA_TYPE == "application/vnd.docker.distribution.manifest.list.v2+json"
MANIFEST_V2_MEDIA_TYPE == "application/vnd.docker.distribution.manifest.v2+json"
OCI_MANIFEST_MEDIA_TYPE == "application/vnd.oci.image.manifest.v1+json"
OCI_IMAGE_CONFIG_MEDIA_TYPE == "application/vnd.oci.image.config.v1+json"

\* ChecksumMixin.checksum
checksum(digest) == split(digest, ":")[2]

(***************************************************************************)
(* The environment: the rpm database and the installed files.  Requests    *)
(* never change it.                                                        *)
(***************************************************************************)
VARIABLES
    provides,   \* package -> its Provides, in order: [name, version], version <<>> when unversioned
    arch,       \* package -> %{arch}
    files,      \* package -> its installed file paths (rpm -ql)
    index,      \* package name -> the manifests[] of <_OCI_BASE_PATH>/<name>/index.json
    indexHash,  \* package name -> hex sha256 of that index.json file
    fsfiles,    \* the paths that exist under _BLOBS_BASE_PATH
    request,    \* the last request served
    response    \* and its outcome

env == <<provides, arch, files, index, indexHash, fsfiles>>
vars == <<provides, arch, files, index, indexHash, fsfiles, request, response>>

\* installed packages, as `rpm -q` prints them, in database order
PkgOrder == <<"pA", "pB">>
Pkgs == Range(PkgOrder)
\* %{name} of a package; also its directory under _OCI_BASE_PATH
PkgName(p) == IF p = "pA" THEN "na" ELSE "nb"
PkgNames == {PkgName(p) : p \in Pkgs}

Hex == {<<"a", "a">>, <<"a", "b">>}
Digest(hex) == SHA_PREFIX \o hex
BlobSize(hex) == IF hex = <<"a", "a">> THEN 7 ELSE 9
IndexEntry(hex) == [mediaType |-> OCI_MANIFEST_MEDIA_TYPE, digest |-> Digest(hex), size |-> BlobSize(hex)]

ImageNames == {<<"foo">>, <<"bar">>}
Tags == {<<"1.0">>, <<"2.0">>}

Capability(kind, key) == <<kind>> \o key \o <<")">>
Provide(n, v) == [name |-> n, version |-> v]

\* Provides of image packages: versioned, unversioned, for another image, and
\* one whose name holds a "=" (rpm takes `Provides: k=v` as a name)
ImageSamples ==
    { Provide(Capability("oci_image(", <<"foo">>), <<"1.0">>),
      Provide(Capability("oci_image(", <<"foo">>), <<"2.0">>),
      Provide(Capability("oci_image(", <<"foo">>), <<>>),
      Provide(Capability("oci_image(", <<"bar">>), <<"2.0">>),
      Provide(<<"k", "=", "v">>, <<"1.0">>) }
ManifestSamples ==
    { Provide(Capability("oci_image(", <<"foo">>), <<"1.0">>),
      Provide(Capability("oci_manifest(", Digest(<<"a", "a">>)), <<>>),
      Provide(Capability("oci_manifest(", Digest(<<"a", "b">>)), <<>>) }
ConfigSamples ==
    { Provide(Capability("oci_config(", Digest(<<"a", "a">>)), <<>>),
      Provide(Capability("oci_config(", <<"a", "a">>), <<>>) }
FileSamples ==
    { <<"/usr/share/suse-docker-images/oci/", "na", "/index.json">>,
      <<"/cfg/", "a", "a">>,
      <<"/cfg/", "b", "a", "a">> }

BlobPath(hex) == _BLOBS_BASE_PATH \o hex

NoRequest == [op |-> "none"]
NoResponse == [status |-> 0, kind |-> "none", media_type |-> "", content |-> <<>>]

BaseArch == [p \in Pkgs |-> IF p = "pA" THEN "x86_64" ELSE "s390x"]
BaseFiles == [p \in Pkgs |-> IF p = "pA" THEN <<>> ELSE << <<"/cfg/", "a", "a">> >>]
BaseIndex == [n \in PkgNames |-> IF n = "na" THEN <<IndexEntry(<<"a", "a">>)>> ELSE <<IndexEntry(<<"a", "b">>)>>]
BaseHash == [n \in PkgNames |-> <<"b", "b">>]
IndexChoices == {[i \in 1..Len(s) |-> IndexEntry(s[i])] : s \in BSeq(Hex, MaxManifests) \ {<<>>}}

\* image packages: the Provides vary; pA (x86_64) has a two-entry index.json,
\* pB (s390x) a one-entry one
TagWorld ==
    /\ \E a \in BSeq(ImageSamples, MaxProvides), b \in {<<>>, <<Provide(Capability("oci_image(", <<"foo">>), <<"1.0">>)>>} :
            provides = [p \in Pkgs |-> IF p = "pA" THEN a ELSE b]
    /\ arch = BaseArch
    /\ index = [BaseIndex EXCEPT !["na"] = <<IndexEntry(<<"a", "a">>), IndexEntry(<<"a", "b">>)>>]
    /\ files = BaseFiles /\ indexHash = BaseHash /\ fsfiles = {}

\* manifest capabilities and index documents vary
DigestWorld ==
    /\ \E a \in BSeq(ManifestSamples, MaxProvides), b \in {<<>>, <<Provide(Capability("oci_manifest(", Digest(<<"a", "a">>)), <<>>)>>} :
            provides = [p \in Pkgs |-> IF p = "pA" THEN a ELSE b]
    /\ arch = BaseArch
    /\ \E i \in IndexChoices : index = [BaseIndex EXCEPT !["na"] = i]
    /\ \E h \in {<<"a", "a">>, <<"b", "b">>} : indexHash = [BaseHash EXCEPT !["na"] = h]
    /\ files = BaseFiles /\ fsfiles = {}

\* config capabilities, installed files and the blob store vary
BlobWorld ==
    /\ \E a \in BSeq(ConfigSamples, MaxProvides), b \in {<<>>, <<Provide(Capability("oci_config(", Digest(<<"a", "a">>)), <<>>)>>} :
            provides = [p \in Pkgs |-> IF p = "pA" THEN a ELSE b]
    /\ arch = BaseArch
    /\ \E f \in BSeq(FileSamples, MaxFiles) : files = [BaseFiles EXCEPT !["pA"] = f]
    /\ fsfiles \in SUBSET {BlobPath(<<"a", "a">>)}
    /\ index = BaseIndex /\ indexHash = BaseHash

Init ==
    /\ TagWorld \/ DigestWorld \/ BlobWorld
    /\ request = NoRequest
    /\ response = NoResponse

(***************************************************************************)
(* rpm, as the command runner shows it: (exit_code, stdout).               *)
(***************************************************************************)
\* rpm -qP <pkg>
rpm_qP(pkg) ==
    Concat([i \in 1..Len(provides[pkg[1]]) |->
        LET prov == provides[pkg[1]][i]
        IN  (IF prov.version = <<>> THEN prov.name
             ELSE prov.name \o <<" ", "=", " ">> \o prov.version) \o <<"\n">>])

\* rpm -q --whatprovides '<cap>': one line per matching Provides, or a failure
WhatProvidesLines(cap) ==
    Concat([i \in 1..Len(PkgOrder) |->
        Concat([j \in 1..Len(provides[PkgOrder[i]]) |->
            IF provides[PkgOrder[i]][j].name = cap THEN <<PkgOrder[i], "\n">> ELSE <<>>])])

rpm_whatprovides(cap) ==
    { [exit_code |-> 0, stdout |-> WhatProvidesLines(cap)],
      [exit_code |-> 1, stdout |-> <<"no package provides ">> \o cap \o <<"\n">>] }

\* rpm -q --qf "%{name} %{arch}" <pkg>
rpm_qf_name_arch(pkg) == <<PkgName(pkg[1]), " ", arch[pkg[1]]>>

\* rpm -q --qf "%{name}" <pkg>
rpm_qf_name(pkg) == <<PkgName(pkg[1])>>

\* rpm -ql <pkg>
rpm_ql(pkg) == Concat([i \in 1..Len(files[pkg[1]]) |-> files[pkg[1]][i] \o <<"\n">>])

(***************************************************************************)
(* Outcomes of a handler.                                                  *)
(***************************************************************************)
HTTPException404 == [status |-> 404, kind |-> "HTTPException", media_type |-> "", content |-> <<>>]
\* an uncaught ValueError: the server answers 500
ValueError == [status |-> 500, kind |-> "ValueError", media_type |-> "", content |-> <<>>]
Reply(kind, media_type, content) == [status |-> 200, kind |-> kind, media_type |-> media_type, content |-> content]

(***************************************************************************)
(* read_in_oci_image: index.json of the image and the manifest its first   *)
(* entry names.  A blob is identified by the path it is read from.         *)
(***************************************************************************)
ManifestPath(image_name, hex) == _OCI_BASE_PATH \o <<image_name, "/blobs/sha256/">> \o hex

read_in_oci_image(image_name) ==
    LET index_json == index[image_name]
    IN  [ index_json |-> index_json,
          manifest |-> [ path |-> ManifestPath(image_name, checksum(index_json[1].digest)),
                         mediaType |-> OCI_MANIFEST_MEDIA_TYPE ] ]

(***************************************************************************)
(* package_names_from_rpm                                                  *)
(***************************************************************************)
oci_img_provide(image_name) == <<"oci_image(">> \o image_name \o <<")">>

RECURSIVE ScanProvides(_, _, _)
\* the inner loop over `rpm -qP` lines: "match" (append, break), "nomatch", or
\* "raise" when the unpacking of split("=") fails
ScanProvides(lines, image_name, img_tag) ==
    IF lines = <<>> THEN "nomatch"
    ELSE LET line == Head(lines)
         IN  IF ~Contains(line, "=") THEN ScanProvides(Tail(lines), image_name, img_tag)
             ELSE LET parts == split(line, "=")
                  IN  IF Len(parts) # 2 THEN "raise"
                      ELSE IF strip(parts[1]) = oci_img_provide(image_name) /\ strip(parts[2]) = img_tag
                           THEN "match"
                      ELSE ScanProvides(Tail(lines), image_name, img_tag)

\* rpm_wp_res: the result of the --whatprovides query; order: the order in which
\* the set pkgs is iterated.  img_tag <<>> stands for None.
package_names_from_rpm(image_name, img_tag, rpm_wp_res, order) ==
    IF rpm_wp_res.exit_code # 0 THEN [kind |-> "None", pkgs |-> <<>>]
    ELSE IF img_tag = <<>> THEN [kind |-> "list", pkgs |-> order]
    ELSE LET scan(pkg) == ScanProvides(splitlines(rpm_qP(pkg)), image_name, img_tag)
         IN  IF \E i \in 1..Len(order) : scan(order[i]) = "raise"
             THEN [kind |-> "raise", pkgs |-> <<>>]
             ELSE [kind |-> "list", pkgs |-> SelectSeq(order, LAMBDA pkg : scan(pkg) = "match")]

\* the set built from the query's stdout
PkgSet(rpm_res) == Range(splitlines(rpm_res.stdout))

(***************************************************************************)
(* GET /v2/ and HEAD /v2/{name}/manifests/{reference}                      *)
(***************************************************************************)
get_base ==
    /\ request' = [op |-> "get_base"]
    /\ response' = Reply("json", "application/json", <<>>)
    /\ UNCHANGED env

check_manifest_exists ==
    \E name \in ImageNames, reference \in Tags :
        /\ request' = [op |-> "check_manifest_exists", name |-> name, reference |-> reference]
        /\ response' = Reply("json", "application/json", <<>>)
        /\ UNCHANGED env

(***************************************************************************)
(* GET /v2/{name}/tags/list                                                *)
(***************************************************************************)
\* tags_of_provide without the comparison of the capability name
tags_of_provide_any_name(prov, name) ==
    LET tmp == split(prov, "=")
    IN  IF Len(tmp) = 2 THEN <<strip(tmp[2])>> ELSE <<>>

\* the tags one `rpm -qP` line contributes
tags_of_provide(prov, name) ==
    LET tmp == split(prov, "=")
    IN  IF Len(tmp) = 2 /\ strip(tmp[1]) = <<"oci_image(">> \o name \o <<")">>
        THEN <<strip(tmp[2])>>
        ELSE <<>>

send_tag_list_result(name, rpm_wp_res, order) ==
    LET packages == package_names_from_rpm(name, <<>>, rpm_wp_res, order)
    IN  IF packages.kind = "None" \/ packages.pkgs = <<>> THEN HTTPException404
        ELSE Reply("TagReply", "application/json",
                   [ name |-> name,
                     tags |-> Concat([i \in 1..Len(packages.pkgs) |->
                         LET lines == splitlines(rpm_qP(packages.pkgs[i]))
                         IN  Concat([j \in 1..Len(lines) |-> tags_of_provide(lines[j], name)])]) ])

send_tag_list ==
    \E name \in ImageNames :
    \E rpm_wp_res \in rpm_whatprovides(oci_img_provide(name)) :
    \E order \in Orders(PkgSet(rpm_wp_res)) :
        /\ request' = [op |-> "send_tag_list", name |-> name, exit_code |-> rpm_wp_res.exit_code]
        /\ response' = send_tag_list_result(name, rpm_wp_res, order)
        /\ UNCHANGED env

(***************************************************************************)
(* GET /v2/{name}/blobs/{digest}                                           *)
(***************************************************************************)
BlobDigests == {Digest(<<"a", "a">>), <<"a", "a">>}

RECURSIVE config_file_of(_, _)
\* the first installed file whose name ends with the digest less "sha256:"
config_file_of(fnames, digest) ==
    IF fnames = <<>> THEN <<>>
    ELSE IF endswith(Head(fnames), replace(digest, SHA_PREFIX, <<>>)) THEN <<Head(fnames)>>
    ELSE config_file_of(Tail(fnames), digest)

\* config_pkgs with the package count tested as "at least one"
config_pkgs_any(oci_config_provides) ==
    IF oci_config_provides.exit_code = 0 /\ Cardinality(PkgSet(oci_config_provides)) >= 1
    THEN PkgSet(oci_config_provides)
    ELSE {}

\* whether the config branch is entered: the query succeeded and names one package
config_pkgs(oci_config_provides) ==
    IF oci_config_provides.exit_code = 0 /\ Cardinality(PkgSet(oci_config_provides)) = 1
    THEN PkgSet(oci_config_provides)
    ELSE {}

send_digest_result(digest, oci_config_provides) ==
    LET pkgs == config_pkgs(oci_config_provides)
        found == IF pkgs = {} THEN <<>>
                 ELSE config_file_of(splitlines(rpm_ql(CHOOSE pkg \in pkgs : TRUE)), digest)
        stripped == IF startswith(digest, SHA_PREFIX) THEN replace(digest, SHA_PREFIX, <<>>) ELSE digest
        digest_file == _BLOBS_BASE_PATH \o stripped
    IN  IF found # <<>> THEN Reply("FileResponse", OCI_IMAGE_CONFIG_MEDIA_TYPE, found[1])
        ELSE IF digest_file \notin fsfiles THEN HTTPException404
        ELSE Reply("FileResponse", "", digest_file)

send_digest ==
    \E name \in ImageNames, digest \in BlobDigests :
    \E oci_config_provides \in rpm_whatprovides(<<"oci_config(">> \o digest \o <<")">>) :
        /\ request' = [op |-> "send_digest", name |-> name, digest |-> digest,
                       exit_code |-> oci_config_provides.exit_code]
        /\ response' = send_digest_result(digest, oci_config_provides)
        /\ UNCHANGED env

(***************************************************************************)
(* GET /v2/{name}/manifests/{reference}                                    *)
(***************************************************************************)
\* manifests_from_sha_digest taking the first package when there are several
manifests_from_sha_digest_first(digest, manifest_pkg_query) ==
    IF manifest_pkg_query.exit_code # 0 THEN [kind |-> "None"]
    ELSE LET pkgs == PkgSet(manifest_pkg_query)
         IN  IF pkgs = {} THEN [kind |-> "raise"]
             ELSE LET pkg_rpm_name == CHOOSE pkg \in pkgs : TRUE
                      pkg_name == strip(rpm_qf_name(pkg_rpm_name))
                  IN  [kind |-> "manifest", manifest |-> read_in_oci_image(pkg_name[1]).manifest]

\* manifests_from_sha_digest with the query run without raise_on_error=False
manifests_from_sha_digest_raise_on_error(digest, manifest_pkg_query) ==
    IF manifest_pkg_query.exit_code # 0 THEN [kind |-> "raise"]
    ELSE LET pkgs == PkgSet(manifest_pkg_query)
         IN  IF pkgs = {} \/ Cardinality(pkgs) # 1 THEN [kind |-> "raise"]
             ELSE LET pkg_rpm_name == CHOOSE pkg \in pkgs : TRUE
                      pkg_name == strip(rpm_qf_name(pkg_rpm_name))
                  IN  [kind |-> "manifest", manifest |-> read_in_oci_image(pkg_name[1]).manifest]

\* manifests_from_sha_digest returning None for an empty package set
manifests_from_sha_digest_empty_none(digest, manifest_pkg_query) ==
    IF manifest_pkg_query.exit_code # 0 THEN [kind |-> "None"]
    ELSE LET pkgs == PkgSet(manifest_pkg_query)
         IN  IF pkgs = {} THEN [kind |-> "None"]
             ELSE IF Cardinality(pkgs) # 1 THEN [kind |-> "raise"]
             ELSE LET pkg_rpm_name == CHOOSE pkg \in pkgs : TRUE
                      pkg_name == strip(rpm_qf_name(pkg_rpm_name))
                  IN  [kind |-> "manifest", manifest |-> read_in_oci_image(pkg_name[1]).manifest]

\* "None", "raise" (ValueError), or the manifest read_in_oci_image returns
manifests_from_sha_digest(digest, manifest_pkg_query) ==
    IF manifest_pkg_query.exit_code # 0 THEN [kind |-> "None"]
    ELSE LET pkgs == PkgSet(manifest_pkg_query)
         IN  IF pkgs = {} \/ Cardinality(pkgs) # 1 THEN [kind |-> "raise"]
             ELSE LET pkg_rpm_name == CHOOSE pkg \in pkgs : TRUE
                      pkg_name == strip(rpm_qf_name(pkg_rpm_name))
                  IN  [kind |-> "manifest", manifest |-> read_in_oci_image(pkg_name[1]).manifest]

\* normalize_arch without the x86_64 case
normalize_arch_identity(a) == a

\* x86_64 is presented as amd64
normalize_arch(a) == IF a = <<"x86_64">> THEN <<"amd64">> ELSE a

\* docker_manifests keeping only the first entry of index.json
docker_manifests_first(index_json, a) ==
    << [ mediaType |-> MANIFEST_V2_MEDIA_TYPE,
         size |-> index_json[1].size,
         digest |-> index_json[1].digest,
         platform |-> [architecture |-> a, os |-> "linux"] ] >>

\* the DockerManifest entries one package contributes
docker_manifests(index_json, a) ==
    [i \in 1..Len(index_json) |->
        [ mediaType |-> MANIFEST_V2_MEDIA_TYPE,
          size |-> index_json[i].size,
          digest |-> index_json[i].digest,
          platform |-> [architecture |-> a, os |-> "linux"] ]]

manifests_of_pkg(pkg) ==
    LET qf == split(rpm_qf_name_arch(pkg), " ")
        pkg_name == qf[1]
        a == normalize_arch(qf[2])
    IN  docker_manifests(read_in_oci_image(pkg_name[1]).index_json, a)

\* read_manifest_by_digest answering with an index.json that hashes to the
\* reference before it asks for the manifest capability
read_manifest_by_digest_index_first(reference, manifest_pkg_query) ==
    IF \E n \in PkgNames : indexHash[n] = checksum(reference)
    THEN Reply("Response", "application/vnd.oci.image.index.v1+json",
               index[CHOOSE n \in PkgNames : indexHash[n] = checksum(reference)])
    ELSE LET manifest == manifests_from_sha_digest(reference, manifest_pkg_query)
         IN  IF manifest.kind = "raise" THEN ValueError
             ELSE IF manifest.kind = "None" THEN HTTPException404
             ELSE Reply("Response", manifest.manifest.mediaType, manifest.manifest)

read_manifest_by_digest(reference, manifest_pkg_query) ==
    LET manifest == manifests_from_sha_digest(reference, manifest_pkg_query)
    IN  IF manifest.kind = "raise" THEN ValueError
        ELSE IF manifest.kind = "None" THEN HTTPException404
        ELSE Reply("Response", manifest.manifest.mediaType, manifest.manifest)

read_manifest_by_tag(name, reference, rpm_wp_res, order) ==
    LET pkgs == package_names_from_rpm(name, reference, rpm_wp_res, order)
    IN  IF pkgs.kind = "raise" THEN ValueError
        ELSE IF pkgs.kind = "None" \/ pkgs.pkgs = <<>> THEN HTTPException404
        ELSE Reply("Response", MANIFEST_LIST_V2_MEDIA_TYPE,
                   [ schemaVersion |-> 2,
                     mediaType |-> MANIFEST_LIST_V2_MEDIA_TYPE,
                     manifests |-> Concat([i \in 1..Len(pkgs.pkgs) |-> manifests_of_pkg(pkgs.pkgs[i])]) ])

References == Tags \cup {Digest(h) : h \in Hex}

read_manifest ==
    \E name \in ImageNames, reference \in References :
        IF startswith(reference, SHA_PREFIX)
        THEN \E manifest_pkg_query \in rpm_whatprovides(<<"oci_manifest(">> \o reference \o <<")">>) :
                /\ request' = [op |-> "read_manifest", name |-> name, reference |-> reference,
                               exit_code |-> manifest_pkg_query.exit_code]
                /\ response' = read_manifest_by_digest(reference, manifest_pkg_query)
                /\ UNCHANGED env
        ELSE \E rpm_wp_res \in rpm_whatprovides(oci_img_provide(name)) :
             \E order \in Orders(PkgSet(rpm_wp_res)) :
                /\ request' = [op |-> "read_manifest", name |-> name, reference |-> reference,
                               exit_code |-> rpm_wp_res.exit_code]
                /\ response' = read_manifest_by_tag(name, reference, rpm_wp_res, order)
                /\ UNCHANGED env

Next ==
    \/ get_base
    \/ check_manifest_exists
    \/ send_tag_list
    \/ send_digest
    \/ read_manifest

Spec == Init /\ [][Next]_vars

(***************************************************************************)
(* The package database and the files, read directly: what the claims      *)
(* speak of, stated without the handlers' text parsing.                    *)
(***************************************************************************)
Providing(cap) == {p \in Pkgs : \E i \in 1..Len(provides[p]) : provides[p][i].name = cap}

\* the versions of the `oci_image(name) = version` capabilities of p, in order
ImageVersions(p, name) ==
    LET keep(prov) == prov.name = Capability("oci_image(", name) /\ prov.version # <<>>
        kept == SelectSeq(provides[p], keep)
    IN  [i \in 1..Len(kept) |-> kept[i].version]

\* the packages with a capability oci_image(name) = tag
Matching(name, tag) == {p \in Providing(Capability("oci_image(", name)) : tag \in Range(ImageVersions(p, name))}

HexPart(digest) == IF startswith(digest, SHA_PREFIX) THEN SubSeq(digest, 3, Len(digest)) ELSE digest

ByDigest == request.op = "read_manifest" /\ startswith(request.reference, SHA_PREFIX)
ByTag == request.op = "read_manifest" /\ ~startswith(request.reference, SHA_PREFIX)
ManifestProviders == Providing(Capability("oci_manifest(", request.reference))
\* some package providing oci_image(name) has an index.json that hashes to the reference
IndexHashMatch ==
    \E p \in Providing(Capability("oci_image(", request.name)) :
        indexHash[PkgName(p)] = HexPart(request.reference)

\* C1: a digest lookup whose oci_manifest query returns two or more distinct
\* packages ends in the ValueError fault: not a 404, not a manifest.
C1_AmbiguousIsFault ==
    (ByDigest /\ request.exit_code = 0 /\ Cardinality(ManifestProviders) >= 2)
        => response = ValueError

C1_Witness ==
    ByDigest /\ request.exit_code = 0 /\ Cardinality(ManifestProviders) >= 2
        /\ response.kind = "ValueError"

C3_ReturnsRequestedDigest ==
    (ByDigest /\ response.status = 200) =>
        \E p \in ManifestProviders :
            response.content.path = ManifestPath(PkgName(p), HexPart(request.reference))

C6_ManifestCapabilityWins ==
    (ByDigest /\ request.exit_code = 0 /\ Cardinality(ManifestProviders) = 1 /\ IndexHashMatch) =>
        \E p \in ManifestProviders :
            response = Reply("Response", OCI_MANIFEST_MEDIA_TYPE,
                             [ path |-> ManifestPath(PkgName(p), HexPart(index[PkgName(p)][1].digest)),
                               mediaType |-> OCI_MANIFEST_MEDIA_TYPE ])

C6_Witness ==
    ByDigest /\ request.exit_code = 0 /\ Cardinality(ManifestProviders) = 1 /\ IndexHashMatch
        /\ response.status = 200

\* C7: every entry of a manifest list from tag resolution has platform.os
\* "linux" and platform.architecture the architecture of its package, with
\* x86_64 presented as amd64 and every other architecture unchanged.
C7_PlatformOfPackage ==
    (ByTag /\ response.status = 200) =>
        /\ \A i \in 1..Len(response.content.manifests) :
               response.content.manifests[i].platform.os = "linux"
        /\ \E o \in Orders(Matching(request.name, request.reference)) :
               [i \in 1..Len(response.content.manifests) |->
                   response.content.manifests[i].platform.architecture]
               = Concat([k \in 1..Len(o) |->
                     [j \in 1..Len(index[PkgName(o[k])]) |->
                         IF arch[o[k]] = "x86_64" THEN <<"amd64">> ELSE <<arch[o[k]]>>]])

C7_Witness ==
    ByTag /\ response.status = 200
        /\ \E i, j \in 1..Len(response.content.manifests) :
               /\ response.content.manifests[i].platform.architecture = <<"amd64">>
               /\ response.content.manifests[j].platform.architecture = <<"s390x">>

\* C8: tags/list is 404 exactly when the provider query fails or no package
\* provides oci_image(name); otherwise it returns, package after package, the
\* version of every oci_image(name) = version capability and nothing else.
C8_TagList ==
    request.op = "send_tag_list" =>
        LET provs == Providing(Capability("oci_image(", request.name))
        IN  /\ response.status = 404 <=> (request.exit_code # 0 \/ provs = {})
            /\ response.status # 404 =>
                   /\ response.kind = "TagReply"
                   /\ response.content.name = request.name
                   /\ \E o \in Orders(provs) :
                          response.content.tags
                              = Concat([k \in 1..Len(o) |-> ImageVersions(o[k], request.name)])

C8_Witness ==
    /\ request.op = "send_tag_list" /\ response.status = 200
    /\ Len(response.content.tags) = 2
    /\ \E p \in Providing(Capability("oci_image(", request.name)) :
           \E i \in 1..Len(provides[p]) :
               provides[p][i].name # Capability("oci_image(", request.name) /\ provides[p][i].version # <<>>

\* C9: blobs/{digest} returns the first installed file ending in the digest's
\* hex part as the config blob when the query names exactly one package
\* providing oci_config(digest) and it has such a file; in every other case
\* the blob-store file for the hex digest if it exists, and 404 if not.
C9_BlobOrder ==
    request.op = "send_digest" =>
        LET hex == HexPart(request.digest)
            provs == Providing(Capability("oci_config(", request.digest))
            hits(p) == {i \in 1..Len(files[p]) : endswith(files[p][i], hex)}
            config == request.exit_code = 0 /\ \E p \in Pkgs : provs = {p} /\ hits(p) # {}
        IN  IF config
            THEN \E p \in provs : \E i \in hits(p) :
                     /\ \A j \in hits(p) : i <= j
                     /\ response = Reply("FileResponse", OCI_IMAGE_CONFIG_MEDIA_TYPE, files[p][i])
            ELSE IF BlobPath(hex) \in fsfiles
                 THEN response = Reply("FileResponse", "", BlobPath(hex))
                 ELSE response = HTTPException404

C9_Witness ==
    /\ request.op = "send_digest" /\ response.media_type = OCI_IMAGE_CONFIG_MEDIA_TYPE
    /\ \E p \in Pkgs : Len(files[p]) = 2 /\ ~endswith(files[p][1], HexPart(request.digest))
                       /\ response.content = files[p][2]

\* C10: on the same database, with the provider query succeeding, a tag t is
\* listed by tags/list exactly when tag resolution of (name, t) finds a
\* package, and tag resolution never ends in a fault.
C10_ListAndResolveAgree ==
    (ByTag /\ request.exit_code = 0) =>
        LET rpm_wp_res == [exit_code |-> 0, stdout |-> WhatProvidesLines(oci_img_provide(request.name))]
            listed == send_tag_list_result(request.name, rpm_wp_res,
                                           CHOOSE o \in Orders(PkgSet(rpm_wp_res)) : TRUE)
        IN  /\ response.kind # "ValueError"
            /\ response.status # 404
                   <=> (listed.status = 200 /\ request.reference \in Range(listed.content.tags))

====
